---- MODULE Spec2Model ----
(***************************************************************************)
(* Bitrix24 MySQL API: an Express application that answers HTTP requests   *)
(* by running statements on a mysql2 connection pool.  Two variants exist: *)
(* the single-database server (src/index.js) and the multi-database server *)
(* (src/unnamed/part_000).  Strings are sequences of one-character strings *)
(* so that trim, toLowerCase, startsWith, parseInt and template literals   *)
(* are computed character by character.                                    *)
(***************************************************************************)
EXTENDS Integers, Sequences, FiniteSets

(***************************************************************************)
(* Bounds of the model.                                                    *)
(***************************************************************************)
MaxRequests == 3
MaxWrites == 1
MaxPoolRequests == 12
IdentMaxLen == 64

(***************************************************************************)
(* JavaScript values: undefined, strings, numbers and NaN.                 *)
(***************************************************************************)
JsUndefined == [t |-> "undefined", s |-> <<>>, v |-> 0]
JsNaN == [t |-> "nan", s |-> <<>>, v |-> 0]
JsStr(s) == [t |-> "string", s |-> s, v |-> 0]
JsNum(v) == [t |-> "number", s |-> <<>>, v |-> v]

\* JavaScript truthiness, as used by the || operator.
Truthy(x) ==
  CASE x.t = "undefined" -> FALSE
    [] x.t = "nan" -> FALSE
    [] x.t = "string" -> x.s # <<>>
    [] x.t = "number" -> x.v # 0

\* a || b
OrElse(a, b) == IF Truthy(a) THEN a ELSE b

UpperChars == <<"A","B","C","D","E","F","G","H","I","J","K","L","M",
                "N","O","P","Q","R","S","T","U","V","W","X","Y","Z">>
LowerChars == <<"a","b","c","d","e","f","g","h","i","j","k","l","m",
                "n","o","p","q","r","s","t","u","v","w","x","y","z">>
Digits == <<"0","1","2","3","4","5","6","7","8","9">>
WhiteSpace == {" ", "\t", "\n", "\r"}

DigitSet == {Digits[i] : i \in 1..Len(Digits)}
DigitValues == [c \in DigitSet |-> (CHOOSE i \in 1..Len(Digits) : Digits[i] = c) - 1]
IsDigit(c) == c \in DigitSet
DigitVal(c) == DigitValues[c]

UpperSet == {UpperChars[i] : i \in 1..Len(UpperChars)}
LowerOf ==
  [c \in UpperSet |-> LowerChars[CHOOSE i \in 1..Len(UpperChars) : UpperChars[i] = c]]

\* String.prototype.toLowerCase, one character
LowerChar(c) == IF c \in UpperSet THEN LowerOf[c] ELSE c

toLowerCase(s) == [i \in 1..Len(s) |-> LowerChar(s[i])]

RECURSIVE TrimStart(_)
TrimStart(s) ==
  IF s # <<>> /\ Head(s) \in WhiteSpace THEN TrimStart(Tail(s)) ELSE s

RECURSIVE TrimEnd(_)
TrimEnd(s) ==
  IF s # <<>> /\ s[Len(s)] \in WhiteSpace
  THEN TrimEnd(SubSeq(s, 1, Len(s) - 1))
  ELSE s

\* String.prototype.trim
trim(s) == TrimEnd(TrimStart(s))

\* String.prototype.startsWith
startsWith(s, p) == Len(s) >= Len(p) /\ SubSeq(s, 1, Len(p)) = p

\* String.prototype.includes
includes(s, p) ==
  \E i \in 1..(Len(s) + 1) : i + Len(p) - 1 <= Len(s) /\ SubSeq(s, i, i + Len(p) - 1) = p

RECURSIVE NatToString(_)
NatToString(n) ==
  IF n < 10 THEN <<Digits[n + 1]>>
  ELSE NatToString(n \div 10) \o <<Digits[(n % 10) + 1]>>

\* ToString of a JavaScript value, the first step of parseInt
ToString(x) ==
  CASE x.t = "string" -> x.s
    [] x.t = "undefined" -> <<"u","n","d","e","f","i","n","e","d">>
    [] x.t = "nan" -> <<"N","a","N">>
    [] x.t = "number" ->
         IF x.v < 0 THEN <<"-">> \o NatToString(-x.v) ELSE NatToString(x.v)

RECURSIVE DigitPrefix(_)
DigitPrefix(s) ==
  IF s # <<>> /\ IsDigit(Head(s)) THEN <<Head(s)>> \o DigitPrefix(Tail(s)) ELSE <<>>

RECURSIVE DigitsValue(_)
DigitsValue(ds) ==
  IF ds = <<>> THEN 0
  ELSE 10 * DigitsValue(SubSeq(ds, 1, Len(ds) - 1)) + DigitVal(ds[Len(ds)])

\* parseInt(x) with no radix: leading white space is skipped, an optional
\* sign is read, then the longest run of decimal digits; no digit gives NaN.
\* (The inputs of the model contain no "0x" prefix, the one case in which
\* parseInt without a radix reads hexadecimal.)
parseInt(x) ==
  LET s == TrimStart(ToString(x))
      neg == s # <<>> /\ Head(s) = "-"
      signed == s # <<>> /\ Head(s) \in {"-", "+"}
      rest == IF signed THEN Tail(s) ELSE s
      ds == DigitPrefix(rest)
  IN IF ds = <<>> THEN JsNaN
     ELSE JsNum(IF neg THEN -DigitsValue(ds) ELSE DigitsValue(ds))

(***************************************************************************)
(* SQL text.  Template literals are concatenations of character sequences. *)
(***************************************************************************)
SQL_SELECT_1 == <<"S","E","L","E","C","T"," ","1">>
SQL_SHOW_TABLES == <<"S","H","O","W"," ","T","A","B","L","E","S">>
SQL_SHOW_DATABASES == <<"S","H","O","W"," ","D","A","T","A","B","A","S","E","S">>
SQL_SHOW_TABLES_FROM == <<"S","H","O","W"," ","T","A","B","L","E","S"," ","F","R","O","M"," ">>
SQL_DESCRIBE == <<"D","E","S","C","R","I","B","E"," ">>
SQL_SELECT_FROM == <<"S","E","L","E","C","T"," ","*"," ","F","R","O","M"," ">>
SQL_LIMIT_OFFSET == <<" ","L","I","M","I","T"," ","?"," ","O","F","F","S","E","T"," ","?">>
SQL_LIMIT == <<" ","L","I","M","I","T"," ","?">>
SQL_COUNT_FROM == <<"S","E","L","E","C","T"," ","C","O","U","N","T","(","*",")"," ",
                    "a","s"," ","t","o","t","a","l"," ","F","R","O","M"," ">>
SQL_DROP_TABLE == <<"D","R","O","P"," ","T","A","B","L","E"," ">>

\* The back-tick character U+0060 (a TLA+ string cannot hold it)
BackTick == "U+0060"

\* ${x} between back-ticks
Backticked(x) == <<BackTick>> \o x \o <<BackTick>>

\* the qualified name: back-ticked dbName, a dot, back-ticked tableName
Qualified(dbName, tableName) == Backticked(dbName) \o <<".">> \o Backticked(tableName)

\* A statement as handed to pool.query(sql, values)
Statement(text, params) == [text |-> text, params |-> params]

ShowTablesFromSql(dbName) == SQL_SHOW_TABLES_FROM \o Backticked(dbName)
DescribeSqlSingle(tableName) == SQL_DESCRIBE \o tableName
DescribeSqlMulti(dbName, tableName) == SQL_DESCRIBE \o Qualified(dbName, tableName)
PageSqlSingle(tableName) == SQL_SELECT_FROM \o tableName \o SQL_LIMIT_OFFSET
PageSqlMulti(dbName, tableName) == SQL_SELECT_FROM \o Qualified(dbName, tableName) \o SQL_LIMIT_OFFSET
\* The count taken from another table than the page
CountSqlOtherTable(tableName) == SQL_COUNT_FROM \o <<"d","e","a","l">>
CountSqlSingle(tableName) == SQL_COUNT_FROM \o tableName
CountSqlMulti(dbName, tableName) == SQL_COUNT_FROM \o Qualified(dbName, tableName)
ShortcutSql(table) == SQL_SELECT_FROM \o table \o SQL_LIMIT

(***************************************************************************)
(* Names used by the requests of the model.                                *)
(***************************************************************************)
shop == <<"s","h","o","p">>
orders == <<"o","r","d","e","r","s">>
deal == <<"d","e","a","l">>
company == <<"c","o","m","p","a","n","y">>
contact == <<"c","o","n","t","a","c","t">>
lead == <<"l","e","a","d">>

\* process.env.DB_NAME of the single-database server
DB_NAME == shop

\* The tables the shortcut routes name in their SQL text
ShortcutTables == {deal, company, contact, lead}

(***************************************************************************)
(* Result rows.  A row is a sequence of <<column, value>> pairs.           *)
(***************************************************************************)
Row1(column, value) == << <<column, value>> >>

\* Object.values(row)
ObjectValues(row) == [i \in 1..Len(row) |-> row[i][2]]

\* rows.map(row => Object.values(row)[0])
MapFirstValue(rows) == [i \in 1..Len(rows) |-> ObjectValues(rows[i])[1]]

\* row.total
TotalField(row) == row[CHOOSE i \in 1..Len(row) : row[i][1] = "total"][2]

\* countResult.length in place of countResult[0].total
TotalOfLength(countResult) == Len(countResult)

\* countResult[0].total
TotalOf(countResult) == TotalField(countResult[1])

Min(a, b) == IF a <= b THEN a ELSE b

(***************************************************************************)
(* The MySQL server behind the pool: an external collaborator.  It holds   *)
(* database shop with table orders (the table other clients write to) and  *)
(* the four tables of the shortcut routes.  A statement is recognised by   *)
(* its text, keywords compared without regard to case.                     *)
(***************************************************************************)
Catalogue == << <<shop, orders>>, <<shop, deal>>, <<shop, company>>,
                <<shop, contact>>, <<shop, lead>> >>
DbCatalogue == <<shop>>

OrderRow(k) == Row1("id", k)

InitTables ==
  [loc \in {Catalogue[i] : i \in 1..Len(Catalogue)} |->
     IF loc = <<shop, orders>>
     THEN <<OrderRow(1), OrderRow(2), OrderRow(3)>>
     ELSE <<OrderRow(1)>>]

\* The spellings by which a statement can name table loc
Names(loc, v) ==
  {Qualified(loc[1], loc[2])}
    \cup (IF v = "single" /\ loc[1] = DB_NAME THEN {loc[2]} ELSE {})

DbNorm(text) == toLowerCase(trim(text))

Located(n, prefix, suffix, tabs, v) ==
  IF ~startsWith(n, toLowerCase(prefix)) THEN {}
  ELSE {loc \in DOMAIN tabs :
          \E nm \in Names(loc, v) : n = toLowerCase(prefix \o nm \o suffix)}

DbOk(rows, tabs) == [ok |-> TRUE, rows |-> rows, err |-> "", tables |-> tabs]
DbErr(msg, tabs) == [ok |-> FALSE, rows |-> <<>>, err |-> msg, tables |-> tabs]

\* A value the server accepts after LIMIT or OFFSET
ValidCount(p) == p.t = "number" /\ p.v >= 0

Page(rows, limit, offset) == SubSeq(rows, offset + 1, Min(Len(rows), offset + limit))

TablesOf(db, tabs) ==
  LET present == SelectSeq(Catalogue, LAMBDA loc : loc \in DOMAIN tabs /\ loc[1] = db)
  IN [i \in 1..Len(present) |-> Row1("Tables_in", present[i][2])]

\* What the server does with one statement: its result and the tables after
DbRun(stmt, tabs, v) ==
  LET n == DbNorm(stmt.text)
      ps == stmt.params
      showFrom == {i \in 1..Len(DbCatalogue) :
                     n = toLowerCase(ShowTablesFromSql(DbCatalogue[i]))}
      desc == Located(n, SQL_DESCRIBE, <<>>, tabs, v)
      page == Located(n, SQL_SELECT_FROM, SQL_LIMIT_OFFSET, tabs, v)
      lim == Located(n, SQL_SELECT_FROM, SQL_LIMIT, tabs, v)
      cnt == Located(n, SQL_COUNT_FROM, <<>>, tabs, v)
      drop == Located(n, SQL_DROP_TABLE, <<>>, tabs, v)
  IN CASE n = toLowerCase(SQL_SELECT_1) -> DbOk(<<Row1("1", 1)>>, tabs)
       [] n = toLowerCase(SQL_SHOW_DATABASES) ->
            DbOk([i \in 1..Len(DbCatalogue) |-> Row1("Database", DbCatalogue[i])], tabs)
       [] n = toLowerCase(SQL_SHOW_TABLES) ->
            IF v = "single" THEN DbOk(TablesOf(DB_NAME, tabs), tabs)
            ELSE DbErr("ER_NO_DB_ERROR", tabs)
       [] showFrom # {} ->
            DbOk(TablesOf(DbCatalogue[CHOOSE i \in showFrom : TRUE], tabs), tabs)
       [] desc # {} -> DbOk(<< <<<<"Field", "id">>, <<"Type", "int">>>> >>, tabs)
       [] page # {} ->
            IF Len(ps) = 2 /\ ValidCount(ps[1]) /\ ValidCount(ps[2])
            THEN DbOk(Page(tabs[CHOOSE l \in page : TRUE], ps[1].v, ps[2].v), tabs)
            ELSE DbErr("ER_PARSE_ERROR", tabs)
       [] lim # {} ->
            IF Len(ps) = 1 /\ ValidCount(ps[1])
            THEN DbOk(Page(tabs[CHOOSE l \in lim : TRUE], ps[1].v, 0), tabs)
            ELSE DbErr("ER_PARSE_ERROR", tabs)
       [] cnt # {} -> DbOk(<<Row1("total", Len(tabs[CHOOSE l \in cnt : TRUE]))>>, tabs)
       [] drop # {} ->
            DbOk(<<>>, [l \in DOMAIN tabs \ {CHOOSE l \in drop : TRUE} |-> tabs[l]])
       [] OTHER -> DbErr("ER_PARSE_ERROR", tabs)

\* Every outcome a statement can have: the server's answer, or the loss of
\* the connection before the statement ran.
DbOutcomes(stmt, tabs, v) == {DbRun(stmt, tabs, v), DbErr("ECONNREFUSED", tabs)}

(***************************************************************************)
(* Inputs of the requests.                                                 *)
(***************************************************************************)
BadTableName == <<"o", ";">>
BadDbName == <<"s", BackTick>>
TableNameInputs == {orders, BadTableName}
DbNameInputs == {shop, BadDbName}
LimitInputs == {JsUndefined, JsStr(<<"2">>), JsStr(<<"a","b","c">>)}
\* <<limit, offset>> of the paged requests
PageInputs ==
  (LimitInputs \X {JsUndefined, JsStr(<<"1">>)}) \cup {<<JsUndefined, JsStr(<<"x">>)>>}
\* <<tableName, limit, offset>> of GET /table/:tableName
TableDataInputs ==
  {<<orders, p[1], p[2]>> : p \in PageInputs}
    \cup {<<BadTableName, JsUndefined, JsUndefined>>}
\* <<dbName, tableName, limit, offset>> of GET /database/:dbName/table/:tableName
DbTableDataInputs ==
  {<<shop, orders, p[1], p[2]>> : p \in PageInputs}
    \cup {<<BadDbName, orders, JsUndefined, JsUndefined>>,
          <<shop, BadTableName, JsUndefined, JsUndefined>>}
\* <<table, limit>> of the shortcut routes
ShortcutInputs ==
  ({deal} \X LimitInputs) \cup ({company, contact, lead} \X {JsUndefined})
QueryTexts ==
  { <<"s","e","l","e","c","t"," ","1">>,
    <<" "," ","S","e","L","e","C","t"," ","1"," ">>,
    <<"D","R","O","P"," ","T","A","B","L","E"," ","o","r","d","e","r","s">>,
    <<"x","s","e","l","e","c","t"," ","1">>,
    <<>> }
\* req.body.query: absent, not a string, or a string
QueryInputs == {JsUndefined, JsNum(5)} \cup {JsStr(q) : q \in QueryTexts}

(***************************************************************************)
(* The connection pool.  dbConfig holds what the servers ask of it; the    *)
(* pool itself is mysql2's: a statement takes a free connection, or a new  *)
(* one while fewer than connectionLimit are open, or else waits in the     *)
(* queue (is refused when waiting is off or the queue is full); a          *)
(* connection released goes to the head of the queue if any.               *)
(* A statement is of kind "first" when its handler issues another one      *)
(* after it (the page query of the paged routes) and "last" otherwise.     *)
(***************************************************************************)
\* dbConfig with waitForConnections: false
waitForConnectionsOff == FALSE
waitForConnections == TRUE
connectionLimit == 10
queueLimit == 0

StatementKinds == {"first", "last"}

PoolInit ==
  [all |-> 0, busy |-> [k \in StatementKinds |-> 0], queue |-> <<>>,
   enqueued |-> 0, rejected |-> 0]

\* Connections checked out
Busy(p) == p.busy["first"] + p.busy["last"]

\* pool.query: the statement gets a connection, waits for one, or is refused
Acquire(p, kind) ==
  IF p.all - Busy(p) > 0
  THEN [p EXCEPT !.busy[kind] = @ + 1]
  ELSE IF p.all < connectionLimit
  THEN [p EXCEPT !.all = @ + 1, !.busy[kind] = @ + 1]
  ELSE IF ~waitForConnections
  THEN [p EXCEPT !.rejected = @ + 1]
  ELSE IF queueLimit > 0 /\ Len(p.queue) >= queueLimit
  THEN [p EXCEPT !.rejected = @ + 1]
  ELSE [p EXCEPT !.queue = Append(@, kind), !.enqueued = @ + 1]

\* The statement has ended and its connection is released
Release(p, kind) ==
  LET q == [p EXCEPT !.busy[kind] = @ - 1]
  IN IF q.queue # <<>>
     THEN [q EXCEPT !.busy[Head(q.queue)] = @ + 1, !.queue = Tail(@)]
     ELSE q

(***************************************************************************)
(* State.                                                                  *)
(***************************************************************************)
VARIABLES
  variant,    \* which server runs: "single" (index.js) or "multi" (part_000)
  tables,     \* the server's tables: <<database, table>> -> rows
  handler,    \* the handler invocation in progress, or the last one finished
  started,    \* number of requests dispatched so far
  writes,     \* number of writes other clients have made to orders
  skewSeen,   \* an earlier paged response had a count above its total
  failureSeen, \* an earlier request was answered with a failure of the database
  prevPage,   \* the last earlier paged request answered with success
  pool,       \* the connection pool: connections open and busy, wait queue
  arrived     \* number of requests that have reached the pool

serverVars == <<variant, tables, handler, started, writes, skewSeen, failureSeen, prevPage>>
poolVars == <<pool, arrived>>
vars == <<serverVars, poolVars>>

EmptySlot ==
  [pc |-> "idle", route |-> "", dbName |-> <<>>, tableName |-> <<>>,
   limit |-> JsUndefined, offset |-> JsUndefined, query |-> JsUndefined,
   rows |-> <<>>, countResult |-> <<>>, stmts |-> <<>>, responses |-> <<>>,
   dbError |-> "", uncaught |-> FALSE, w0 |-> 0, w1 |-> 0]

\* The handler of a route starts on a request
NewRequest(route) == [EmptySlot EXCEPT !.route = route, !.w0 = writes]

\* await pool.query(sql, values): the statement is handed to the pool and
\* the handler is suspended (pc names the await it is suspended at)
PoolQuery(slot, pc, stmt) ==
  [slot EXCEPT !.pc = pc, !.stmts = Append(@, stmt)]

\* res.status(status).json(body), after which the handler returns
Send(slot, status, body) ==
  [slot EXCEPT !.pc = "done",
               !.responses = Append(@, [status |-> status, body |-> body]),
               !.w1 = writes]

\* The envelope without the error text
ErrorEnvelopeBare(message) == [success |-> FALSE]

\* { success: false, error: error.message }
ErrorEnvelope(message) == [success |-> FALSE, error |-> message]

\* A catch block that throws the error on: no response, the exception
\* leaves the handler
CatchRethrow(slot, message) == [slot EXCEPT !.pc = "done", !.uncaught = TRUE]

\* catch (error) { res.status(500).json({ success: false, error: error.message }) }
Catch(slot, message) == Send(slot, 500, ErrorEnvelope(message))

\* The catch block of the health handler
HealthCatch(slot, message) ==
  Send(slot, 500, [status |-> "error", message |-> "Database connection failed",
                   error |-> message])

Last(q) == q[Len(q)]

\* The request was answered with a success body of the paged routes
PagedSuccess(slot) ==
  /\ slot.route = "data"
  /\ slot.responses # <<>>
  /\ Last(slot.responses).status = 200

Skewed(slot) ==
  /\ PagedSuccess(slot)
  /\ Last(slot.responses).body.count > Last(slot.responses).body.total

\* The request was answered from a catch block after a statement had failed
DbFailureAnswered(slot) ==
  /\ slot.dbError # ""
  /\ slot.responses # <<>>
  /\ Last(slot.responses).status = 500

\* The HTTP layer hands a request to a handler, which runs to its first await
\* (or to its end).  Requests are taken one at a time: handlers share nothing
\* but the pool and the tables, which they only read.  An exception that left
\* a handler uncaught ends the process, so nothing is dispatched after it.
\* What the finished request showed is remembered in the history variables.
Dispatch(slot) ==
  /\ handler.pc \in {"idle", "done"}
  /\ ~handler.uncaught
  /\ started < MaxRequests
  /\ handler' = slot
  /\ started' = started + 1
  /\ skewSeen' = (skewSeen \/ Skewed(handler))
  /\ failureSeen' = (failureSeen \/ DbFailureAnswered(handler))
  /\ prevPage' = IF PagedSuccess(handler) THEN handler ELSE prevPage
  /\ UNCHANGED <<variant, tables, writes, poolVars>>

\* The outcomes the statement the handler awaits can have
Outcomes == DbOutcomes(Last(handler.stmts), tables, variant)

\* The statement a handler awaits is run by the server and the handler
\* resumes with its outcome: resume[out] is the handler's state after
\* running to its next await or to its end.  dbError keeps the message of
\* the error the statement threw.
Settle(v, route, pc, resume) ==
  /\ variant = v
  /\ handler.pc = pc
  /\ handler.route = route
  /\ \E out \in Outcomes :
       /\ tables' = out.tables
       /\ handler' = IF out.ok THEN resume[out]
                     ELSE [resume[out] EXCEPT !.dbError = out.err]
  /\ UNCHANGED <<variant, started, writes, skewSeen, failureSeen, prevPage, poolVars>>

Init ==
  /\ variant \in {"single", "multi"}
  /\ tables = InitTables
  /\ handler = EmptySlot
  /\ started = 0
  /\ writes = 0
  /\ skewSeen = FALSE
  /\ failureSeen = FALSE
  /\ prevPage = EmptySlot
  /\ pool = PoolInit
  /\ arrived = 0

(***************************************************************************)
(* Handlers common to both servers.                                        *)
(***************************************************************************)
\* GET /health
GetHealth ==
  Dispatch(PoolQuery(NewRequest("health"), "await", Statement(SQL_SELECT_1, <<>>)))

HealthSettled ==
  Settle(variant, "health", "await",
    [out \in Outcomes |->
      IF out.ok
      THEN Send(handler, 200,
                [status |-> "ok", message |-> "Database connection successful",
                 timestamp |-> "toISOString"])
      ELSE HealthCatch(handler, out.err)])

\* The guard written with includes in place of startsWith
IsSelectIncludes(query) == includes(toLowerCase(trim(query)), <<"s","e","l","e","c","t">>)

\* query.trim().toLowerCase().startsWith('select')
IsSelect(query) == startsWith(toLowerCase(trim(query)), <<"s","e","l","e","c","t">>)

\* The trimmed copy handed on in place of the text received
QueryTextTrimmed(query) == trim(query)

\* The text POST /query hands to pool.query
QueryText(query) == query

\* POST /query: reading .trim of a value that is not a string throws a
\* TypeError inside the try block
PostQuery(query) ==
  LET slot == [NewRequest("query") EXCEPT !.query = query]
  IN Dispatch(
       IF query.t # "string"
       THEN Catch(slot, IF query.t = "undefined"
                        THEN "Cannot read properties of undefined (reading 'trim')"
                        ELSE "query.trim is not a function")
       ELSE IF ~IsSelect(query.s)
       THEN Send(slot, 400, [success |-> FALSE, error |-> "Only SELECT queries are allowed"])
       ELSE PoolQuery(slot, "await", Statement(QueryText(query.s), <<>>)))

QuerySettled ==
  Settle(variant, "query", "await",
    [out \in Outcomes |->
      IF out.ok
      THEN Send(handler, 200,
                [success |-> TRUE, count |-> Len(out.rows), data |-> out.rows])
      ELSE Catch(handler, out.err)])

\* GET /
GetRoot ==
  Dispatch(Send(NewRequest("root"), 200,
                   [message |-> "Bitrix24 MySQL API",
                    version |-> IF variant = "single" THEN "1.0.0" ELSE "2.0.0"]))

(***************************************************************************)
(* Handlers of the single-database server.                                 *)
(***************************************************************************)
\* GET /tables
GetTables ==
  /\ variant = "single"
  /\ Dispatch(PoolQuery(NewRequest("tables"), "await", Statement(SQL_SHOW_TABLES, <<>>)))

TablesSettled ==
  Settle("single", "tables", "await",
    [out \in Outcomes |->
      IF out.ok
      THEN LET tableNames == MapFirstValue(out.rows)
           IN Send(handler, 200,
                   [success |-> TRUE, count |-> Len(tableNames), tables |-> tableNames])
      ELSE Catch(handler, out.err)])

\* GET /table/:tableName/structure
GetTableStructure(tableName) ==
  /\ variant = "single"
  /\ Dispatch(PoolQuery([NewRequest("structure") EXCEPT !.tableName = tableName],
                           "await", Statement(DescribeSqlSingle(tableName), <<>>)))

TableStructureSettled ==
  Settle("single", "structure", "await",
    [out \in Outcomes |->
      IF out.ok
      THEN Send(handler, 200,
                [success |-> TRUE, table |-> handler.tableName, columns |-> out.rows])
      ELSE Catch(handler, out.err)])

\* [parseInt(limit), parseInt(offset)] with limit = req.query.limit || 100
\* and offset = req.query.offset || 0
PageParams(limit, offset) ==
  <<parseInt(OrElse(limit, JsNum(100))), parseInt(OrElse(offset, JsNum(0)))>>

\* [parseInt(limit)] with limit = req.query.limit || 100
LimitParams(limit) == <<parseInt(OrElse(limit, JsNum(100)))>>

\* GET /table/:tableName
GetTableData(tableName, limit, offset) ==
  /\ variant = "single"
  /\ Dispatch(PoolQuery([NewRequest("data") EXCEPT !.tableName = tableName,
                                                     !.limit = limit,
                                                     !.offset = offset],
                           "await",
                           Statement(PageSqlSingle(tableName), PageParams(limit, offset))))

\* The page has arrived: keep it and ask for the count
TableDataPageSettled ==
  Settle("single", "data", "await",
    [out \in Outcomes |->
      IF out.ok
      THEN PoolQuery([handler EXCEPT !.rows = out.rows], "await2",
                     Statement(CountSqlSingle(handler.tableName), <<>>))
      ELSE Catch(handler, out.err)])

\* The success body of GET /table/:tableName
DataBodySingle(slot, countResult) ==
  [success |-> TRUE, table |-> slot.tableName, total |-> TotalOf(countResult),
   count |-> Len(slot.rows), data |-> slot.rows]

TableDataCountSettled ==
  Settle("single", "data", "await2",
    [out \in Outcomes |->
      IF out.ok
      THEN Send([handler EXCEPT !.countResult = out.rows], 200,
                DataBodySingle(handler, out.rows))
      ELSE Catch(handler, out.err)])

\* GET /deals, /companies, /contacts, /leads: one handler per table, alike
\* but for the table named in the SQL text
GetShortcut(table, limit) ==
  /\ variant = "single"
  /\ table \in ShortcutTables
  /\ Dispatch(PoolQuery([NewRequest("shortcut") EXCEPT !.tableName = table,
                                                         !.limit = limit],
                           "await", Statement(ShortcutSql(table), LimitParams(limit))))

ShortcutSettled ==
  Settle("single", "shortcut", "await",
    [out \in Outcomes |->
      IF out.ok
      THEN Send(handler, 200,
                [success |-> TRUE, count |-> Len(out.rows), data |-> out.rows])
      ELSE Catch(handler, out.err)])

(***************************************************************************)
(* Handlers of the multi-database server.                                  *)
(***************************************************************************)
\* GET /databases
GetDatabases ==
  /\ variant = "multi"
  /\ Dispatch(PoolQuery(NewRequest("databases"), "await",
                           Statement(SQL_SHOW_DATABASES, <<>>)))

DatabasesSettled ==
  Settle("multi", "databases", "await",
    [out \in Outcomes |->
      IF out.ok
      THEN LET dbNames == MapFirstValue(out.rows)
           IN Send(handler, 200,
                   [success |-> TRUE, count |-> Len(dbNames), databases |-> dbNames])
      ELSE Catch(handler, out.err)])

\* GET /database/:dbName/tables
GetDatabaseTables(dbName) ==
  /\ variant = "multi"
  /\ Dispatch(PoolQuery([NewRequest("tables") EXCEPT !.dbName = dbName],
                           "await", Statement(ShowTablesFromSql(dbName), <<>>)))

DatabaseTablesSettled ==
  Settle("multi", "tables", "await",
    [out \in Outcomes |->
      IF out.ok
      THEN LET tableNames == MapFirstValue(out.rows)
           IN Send(handler, 200,
                   [success |-> TRUE, database |-> handler.dbName,
                    count |-> Len(tableNames), tables |-> tableNames])
      ELSE Catch(handler, out.err)])

\* GET /database/:dbName/table/:tableName
GetDbTableData(dbName, tableName, limit, offset) ==
  /\ variant = "multi"
  /\ Dispatch(PoolQuery([NewRequest("data") EXCEPT !.dbName = dbName,
                                                     !.tableName = tableName,
                                                     !.limit = limit,
                                                     !.offset = offset],
                           "await",
                           Statement(PageSqlMulti(dbName, tableName),
                                     PageParams(limit, offset))))

DbTableDataPageSettled ==
  Settle("multi", "data", "await",
    [out \in Outcomes |->
      IF out.ok
      THEN PoolQuery([handler EXCEPT !.rows = out.rows], "await2",
                     Statement(CountSqlMulti(handler.dbName, handler.tableName), <<>>))
      ELSE Catch(handler, out.err)])

\* The success body of GET /database/:dbName/table/:tableName
DataBodyMulti(slot, countResult) ==
  [success |-> TRUE, database |-> slot.dbName, table |-> slot.tableName,
   total |-> TotalOf(countResult), count |-> Len(slot.rows), data |-> slot.rows]

DbTableDataCountSettled ==
  Settle("multi", "data", "await2",
    [out \in Outcomes |->
      IF out.ok
      THEN Send([handler EXCEPT !.countResult = out.rows], 200,
                DataBodyMulti(handler, out.rows))
      ELSE Catch(handler, out.err)])

\* GET /database/:dbName/table/:tableName/structure
GetDbTableStructure(dbName, tableName) ==
  /\ variant = "multi"
  /\ Dispatch(PoolQuery([NewRequest("structure") EXCEPT !.dbName = dbName,
                                                          !.tableName = tableName],
                           "await", Statement(DescribeSqlMulti(dbName, tableName), <<>>)))

DbTableStructureSettled ==
  Settle("multi", "structure", "await",
    [out \in Outcomes |->
      IF out.ok
      THEN Send(handler, 200,
                [success |-> TRUE, database |-> handler.dbName,
                 table |-> handler.tableName, columns |-> out.rows])
      ELSE Catch(handler, out.err)])

(***************************************************************************)
(* Another client of the same MySQL server inserts a row into orders or    *)
(* deletes its first row.                                                  *)
(***************************************************************************)
OtherClientWrite ==
  /\ writes < MaxWrites
  /\ <<shop, orders>> \in DOMAIN tables
  /\ LET rows == tables[<<shop, orders>>]
     IN \E new \in {Append(rows, OrderRow(4 + writes))}
                     \cup (IF rows # <<>> THEN {Tail(rows)} ELSE {}) :
          tables' = [tables EXCEPT ![<<shop, orders>>] = new]
  /\ writes' = writes + 1
  /\ UNCHANGED <<variant, handler, started, skewSeen, failureSeen, prevPage, poolVars>>

Next ==
  \/ GetHealth
  \/ HealthSettled
  \/ \E query \in QueryInputs : PostQuery(query)
  \/ QuerySettled
  \/ GetRoot
  \/ GetTables
  \/ TablesSettled
  \/ \E tableName \in TableNameInputs : GetTableStructure(tableName)
  \/ TableStructureSettled
  \/ \E in \in TableDataInputs : GetTableData(in[1], in[2], in[3])
  \/ TableDataPageSettled
  \/ TableDataCountSettled
  \/ \E in \in ShortcutInputs : GetShortcut(in[1], in[2])
  \/ ShortcutSettled
  \/ GetDatabases
  \/ DatabasesSettled
  \/ \E dbName \in DbNameInputs : GetDatabaseTables(dbName)
  \/ DatabaseTablesSettled
  \/ \E in \in DbTableDataInputs : GetDbTableData(in[1], in[2], in[3], in[4])
  \/ DbTableDataPageSettled
  \/ DbTableDataCountSettled
  \/ \E dbName \in DbNameInputs, tableName \in TableNameInputs :
        GetDbTableStructure(dbName, tableName)
  \/ DbTableStructureSettled
  \/ OtherClientWrite

Spec == Init /\ [][Next]_vars

(***************************************************************************)
(* The pool under load: requests of one or two statements arrive while     *)
(* earlier statements are still running.                                   *)
(***************************************************************************)
\* A request arrives and its handler issues its first statement
RequestArrives(kind) ==
  /\ arrived < MaxPoolRequests
  /\ arrived' = arrived + 1
  /\ pool' = Acquire(pool, kind)
  /\ UNCHANGED serverVars

\* A running statement ends, with a result or with an error; its connection
\* is released and, after a page query that succeeded, the handler issues
\* the count query
StatementCompletes(kind, ok) ==
  /\ pool.busy[kind] > 0
  /\ pool' = IF kind = "first" /\ ok
             THEN Acquire(Release(pool, kind), "last")
             ELSE Release(pool, kind)
  /\ UNCHANGED <<arrived, serverVars>>

SomeStatementCompletes ==
  \E kind \in StatementKinds, ok \in BOOLEAN : StatementCompletes(kind, ok)

NextPool ==
  \/ \E kind \in StatementKinds : RequestArrives(kind)
  \/ SomeStatementCompletes

\* A statement that is running on the server ends
SpecPool == Init /\ [][NextPool]_vars /\ WF_vars(SomeStatementCompletes)

(***************************************************************************)
(* Properties.                                                             *)
(***************************************************************************)
SelectKeyword == <<"s","e","l","e","c","t">>
StartsWithSelect(q) == startsWith(toLowerCase(trim(q)), SelectKeyword)

Answered == handler.pc = "done" /\ Len(handler.responses) = 1
Response == handler.responses[1]
Body(slot) == Last(slot.responses).body

\* The envelope of a validation failure: a 4xx status and success = false
ClientError(response) ==
  /\ response.status \in 400..499
  /\ "success" \in DOMAIN response.body
  /\ response.body.success = FALSE

\* C1: a query string whose trimmed, lower-cased form does not start with
\* "select" is answered by POST /query with status 400 and success = false,
\* no statement is handed to the pool, and table orders still exists.
NonSelectRejected ==
  (/\ handler.route = "query"
   /\ handler.query.t = "string"
   /\ ~StartsWithSelect(handler.query.s))
    => /\ handler.stmts = <<>>
       /\ Answered
       /\ Response.status = 400
       /\ ClientError(Response)
       /\ <<shop, orders>> \in DOMAIN tables

DropTableRejected ==
  /\ handler.route = "query"
  /\ handler.query =
       JsStr(<<"D","R","O","P"," ","T","A","B","L","E"," ","o","r","d","e","r","s">>)
  /\ Answered
  /\ Response.status = 400
  /\ handler.stmts = <<>>
  /\ <<shop, orders>> \in DOMAIN tables

\* The allow-list of identifiers: letters, digits and underscore only, not
\* empty, at most IdentMaxLen characters
IdentifierChars ==
  UpperSet \cup {LowerChars[i] : i \in 1..Len(LowerChars)} \cup DigitSet \cup {"_"}
ValidIdentifier(I) ==
  /\ Len(I) \in 1..IdentMaxLen
  /\ \A i \in 1..Len(I) : I[i] \in IdentifierChars

TakesDbName == variant = "multi" /\ handler.route \in {"tables", "data", "structure"}
TakesTableName == handler.route \in {"data", "structure"}

\* C2: a request whose database name or table name is not on the allow-list
\* is answered with a validation failure and hands no statement to the pool.
BadIdentifierRejected ==
  (\/ TakesDbName /\ ~ValidIdentifier(handler.dbName)
   \/ TakesTableName /\ ~ValidIdentifier(handler.tableName))
    => /\ handler.stmts = <<>>
       /\ Answered
       /\ ClientError(Response)

\* C3: POST /query without a query, or with a query that is not a string,
\* is answered with a client error that carries a message, and hands no
\* statement to the pool.
MissingQueryIsClientError ==
  (handler.route = "query" /\ handler.query.t # "string")
    => /\ handler.stmts = <<>>
       /\ Answered
       /\ ClientError(Response)
       /\ "error" \in DOMAIN Response.body

\* A query parameter that is a decimal numeral
NumericInput(x) ==
  /\ x.t = "string"
  /\ x.s # <<>>
  /\ \A i \in 1..Len(x.s) : IsDigit(x.s[i])

\* The integer the parameter stands for, or the default
Effective(x, default) == IF NumericInput(x) THEN DigitsValue(x.s) ELSE default

BoundAs(p, x, default) == p.t = "number" /\ p.v = Effective(x, default)

\* C4: the limit and offset bound to the page query, and the limit bound to
\* a shortcut query, are integers: the integer parsed from a numeric input,
\* 100 (limit) or 0 (offset) for a missing or non-numeric input.
BoundLimitOffsetAreIntegers ==
  /\ (handler.route = "data" /\ handler.stmts # <<>>)
       => /\ Len(handler.stmts[1].params) = 2
          /\ BoundAs(handler.stmts[1].params[1], handler.limit, 100)
          /\ BoundAs(handler.stmts[1].params[2], handler.offset, 0)
  /\ (handler.route = "shortcut" /\ handler.stmts # <<>>)
       => /\ Len(handler.stmts[1].params) = 1
          /\ BoundAs(handler.stmts[1].params[1], handler.limit, 100)

\* C5: when a statement of a handler fails, the handler answers with exactly
\* one failure response that carries the message of the error; no exception
\* leaves a handler, a request is never answered twice, and no success
\* response is sent for the failed request.
DbFailureCaught ==
  /\ ~handler.uncaught
  /\ Len(handler.responses) <= 1
  /\ (handler.pc = "done") = (Len(handler.responses) = 1)
  /\ handler.dbError # ""
       => /\ Answered
          /\ Response.status = 500
          /\ "error" \in DOMAIN Response.body
          /\ Response.body.error = handler.dbError
          /\ "success" \in DOMAIN Response.body => Response.body.success = FALSE
          /\ "status" \in DOMAIN Response.body => Response.body.status = "error"

\* A request that ran a statement is answered with success after an earlier
\* request was answered with the failure of its statement
ServedAfterFailure ==
  /\ failureSeen
  /\ Answered
  /\ handler.stmts # <<>>
  /\ Response.status = 200

ErrorResponse == Answered /\ Response.status >= 400

\* C6 as stated: every error response has success = false and a field that
\* holds a message.
ErrorHasSuccessFalse ==
  ErrorResponse
    => /\ "success" \in DOMAIN Response.body
       /\ Response.body.success = FALSE
       /\ {"message", "error"} \cap DOMAIN Response.body # {}

\* C6 as amended: every error response holds the message text in its field
\* error; it has success = false, except the error response of the health
\* check, which has status = "error" and a message field and no success field.
ErrorEnvelopeShape ==
  ErrorResponse
    => /\ "error" \in DOMAIN Response.body
       /\ IF handler.route = "health"
          THEN /\ "success" \notin DOMAIN Response.body
               /\ Response.body.status = "error"
               /\ "message" \in DOMAIN Response.body
          ELSE /\ "success" \in DOMAIN Response.body
               /\ Response.body.success = FALSE

HealthFailureAnswered ==
  /\ handler.route = "health"
  /\ handler.dbError # ""
  /\ ErrorResponse

\* C7: a query string whose trimmed, lower-cased form starts with "select"
\* makes POST /query hand exactly one statement to the pool, whose text is
\* the string as received; on success the response holds the rows of that
\* statement and count is their number.
SelectForwardedUnmodified ==
  (/\ handler.route = "query"
   /\ handler.query.t = "string"
   /\ StartsWithSelect(handler.query.s))
    => /\ handler.stmts = <<Statement(handler.query.s, <<>>)>>
       /\ (handler.pc = "done" /\ handler.dbError = "")
            => /\ Answered
               /\ Response.status = 200
               /\ Response.body.success = TRUE
               /\ Response.body.data = DbRun(handler.stmts[1], tables, variant).rows
               /\ Response.body.count = Len(Response.body.data)

PaddedSelectServed ==
  /\ handler.route = "query"
  /\ handler.query = JsStr(<<" "," ","S","e","L","e","C","t"," ","1"," ">>)
  /\ Answered
  /\ Response.status = 200
  /\ Response.body.count = 1

\* The table a paged request names, as it is spelled in the SQL text
NamedInSql(slot) ==
  IF variant = "single" THEN slot.tableName
  ELSE Qualified(slot.dbName, slot.tableName)

\* The table a paged request names, on the server
LocatorOf(slot) ==
  <<IF variant = "single" THEN DB_NAME ELSE slot.dbName, slot.tableName>>

\* C8: the paged table-data handler first hands the page query to the pool,
\* with two bound parameters, and after it succeeded the COUNT(*) query on
\* the same table; it answers only after both, with data = the page rows,
\* count = their number and total = the number of rows counted.  When the
\* page query fails the count query is not issued and the answer is a failure.
PagedTwoRoundTrips ==
  handler.route = "data"
    => /\ Len(handler.stmts) \in 1..2
       /\ handler.stmts[1].text =
            SQL_SELECT_FROM \o NamedInSql(handler) \o SQL_LIMIT_OFFSET
       /\ Len(handler.stmts[1].params) = 2
       /\ Len(handler.stmts) = 2
            => handler.stmts[2] =
                 Statement(SQL_COUNT_FROM \o NamedInSql(handler), <<>>)
       /\ handler.pc = "await"
            => Len(handler.stmts) = 1 /\ handler.responses = <<>>
       /\ handler.pc = "await2"
            => /\ Len(handler.stmts) = 2
               /\ handler.responses = <<>>
               /\ handler.dbError = ""
       /\ (handler.pc = "done" /\ handler.dbError # "")
            => Answered /\ Response.status = 500 /\ Response.body.success = FALSE
       /\ (handler.pc = "done" /\ Len(handler.stmts) = 1) => handler.dbError # ""
       /\ (handler.pc = "done" /\ handler.dbError = "")
            => /\ Len(handler.stmts) = 2
               /\ Answered
               /\ Response.status = 200
               /\ Response.body.success = TRUE
               /\ Response.body.data = handler.rows
               /\ Response.body.count = Len(handler.rows)
               /\ handler.w1 = writes
                    => Response.body.total = Len(tables[LocatorOf(handler)])
               /\ handler.w0 = writes
                    => Response.body.data =
                         Page(tables[LocatorOf(handler)],
                              handler.stmts[1].params[1].v,
                              handler.stmts[1].params[2].v)

\* Two of three rows: limit 2 from the start of orders
FirstTwoOfThree ==
  /\ handler.route = "data"
  /\ handler.limit = JsStr(<<"2">>)
  /\ handler.offset = JsUndefined
  /\ Answered
  /\ Response.status = 200
  /\ Response.body.data = <<OrderRow(1), OrderRow(2)>>
  /\ Response.body.count = 2
  /\ Response.body.total = 3

SameCall(a, b) ==
  /\ a.dbName = b.dbName
  /\ a.tableName = b.tableName
  /\ a.limit = b.limit
  /\ a.offset = b.offset

\* C10: when no write to the table falls between the start of one paged
\* request and the answer to a later one with the same database, table,
\* limit and offset, both answers hold the same rows and the same total, and
\* count <= total.  (With a write between the page query and the count query
\* an answer can have count > total: skewSeen.)
PagedIdempotent ==
  /\ (PagedSuccess(handler) /\ handler.w0 = handler.w1)
       => Body(handler).count <= Body(handler).total
  /\ (/\ PagedSuccess(handler)
      /\ PagedSuccess(prevPage)
      /\ SameCall(prevPage, handler)
      /\ prevPage.w0 = handler.w1)
       => /\ Body(handler).data = Body(prevPage).data
          /\ Body(handler).total = Body(prevPage).total
          /\ Body(prevPage).count <= Body(prevPage).total

\* After an answer with count > total, two equal calls on the unchanged
\* table were answered alike
SkewThenRepeatedCall ==
  /\ skewSeen
  /\ PagedSuccess(handler)
  /\ PagedSuccess(prevPage)
  /\ SameCall(prevPage, handler)
  /\ prevPage.w0 = handler.w1
  /\ Body(handler).data # <<>>
  /\ Body(handler).data = Body(prevPage).data
  /\ Body(handler).total = Body(prevPage).total

\* C9: at most connectionLimit connections are ever busy; a statement that
\* finds them all busy waits in the queue and is never refused; statements
\* wait only while all connections are busy running statements, and every
\* statement put on the queue gets a connection, given that running
\* statements end.
PoolQueuesNeverRefuses ==
  /\ [](/\ Busy(pool) <= connectionLimit
        /\ pool.all <= connectionLimit
        /\ pool.rejected = 0
        /\ pool.queue # <<>> => Busy(pool) = connectionLimit)
  /\ \A n \in 1..(2 * MaxPoolRequests) :
       (pool.enqueued >= n) ~> (pool.enqueued - Len(pool.queue) >= n)

\* One statement waits while all connections are busy, after an earlier
\* waiting statement got its connection
QueuedBehindServed ==
  /\ Busy(pool) = connectionLimit
  /\ Len(pool.queue) = 1
  /\ pool.enqueued >= 2
  /\ pool.rejected = 0

====
